---- MODULE Spec2Model ----
(***************************************************************************)
(* The transaction heartbeater (txnHeartbeater) of the KV client: the      *)
(* interceptor that injects BeginTransaction markers into write batches,   *)
(* runs the background heartbeat loop, and reacts to an aborted            *)
(* transaction record.                                                     *)
(*                                                                         *)
(* Every critical section of the coordinator's mutex is one action.  The   *)
(* lower senders release the mutex for the network round trip, so a        *)
(* foreground SendLocked and a heartbeat are each two actions: the part    *)
(* before the round trip and the part after it.                            *)
(*                                                                         *)
(* Request indices are 0-based as in the source; the sequence positions    *)
(* of TLA+ are 1-based, so request i of a batch ba is ba[i + 1].           *)
(***************************************************************************)
EXTENDS Integers, Sequences, FiniteSets, TLC

\* ------------------------------------------------------------------ bounds
\* Longest batch a caller sends, where the foreground path is checked alone.
MaxBatch == 3
\* Longest batch a caller sends, where everything is interleaved.
MaxShortBatch == 1
\* Heartbeat loop goroutines that may be alive at the same time.
MaxLoops == 2

\* ------------------------------------------------------------------ values
Nil == "nil"

Keys == {"k1", "k2"}
\* An empty key: a record without an anchor, a request without a key.
NoKey == ""

PENDING == "PENDING"
COMMITTED == "COMMITTED"
ABORTED == "ABORTED"
Statuses == {PENDING, COMMITTED, ABORTED}

\* The two senders below the heartbeater.
Wrapped == "wrapped"
Gatekeeper == "gatekeeper"

\* Requests.  commit and poison are meaningful for EndTransaction only.
Req(m, k, c, p) == [method |-> m, key |-> k, commit |-> c, poison |-> p]
Get(k) == Req("Get", k, FALSE, FALSE)
Put(k) == Req("Put", k, FALSE, FALSE)
EndTxn(c) == Req("EndTransaction", NoKey, c, FALSE)

\* What a caller may put in a batch.
ClientRequests ==
    {Get("k1")} \cup {Put(k) : k \in Keys} \cup {EndTxn(c) : c \in BOOLEAN}

Batches == UNION {[1..n -> ClientRequests] : n \in 1..MaxBatch}

\* The batches of the runs that interleave everything.
ShortBatches == UNION {[1..n -> ClientRequests] : n \in 1..MaxShortBatch}

\* Errors: a message and an optional 0-based index of the request at fault.
\* NoIndex is the nil Index of an error, NoError the nil *roachpb.Error.
NoIndex == -1
Err(m) == [msg |-> m, index |-> NoIndex]
ErrAt(m, i) == [msg |-> m, index |-> i]
NoError == Err("")

\* A nil *BatchResponse, and the batch of a call that forwarded nothing.
NoResponse == << >>
NoBatch == << >>

\* A nil liveness channel; channels are numbered from 1.
NoChan == 0

\* A transaction snapshot carries the status; NoTxn is the nil snapshot.
Snapshot(s) == [Status |-> s]
NoTxn == Snapshot(Nil)

\* The response slot answering request r.
RespFor(r) == [method |-> r.method, key |-> r.key]

\* roachpb.IsTransactionWrite: the request carries the isTxnWrite flag.
\* Reads, EndTransaction, BeginTransaction and HeartbeatTxn do not.
IsTransactionWrite(r) == r.method = "Put"

\* BatchRequest.IsSingleEndTransactionRequest
IsSingleEndTransactionRequest(ba) ==
    Len(ba) = 1 /\ ba[1].method = "EndTransaction"

\* BatchRequest.GetArg(EndTransaction): whether the batch holds an EndTransaction.
HaveEndTxn(ba) == \E i \in 1..Len(ba) : ba[i].method = "EndTransaction"

\* A variant that stops at the first request that writes at all, an
\* EndTransaction included, instead of the first transactional write.
RECURSIVE firstWriteIndexAnyWriteFrom(_, _)
firstWriteIndexAnyWriteFrom(ba, i) ==
    IF i >= Len(ba) THEN [idx |-> -1, err |-> NoError]
    ELSE IF i < Len(ba) - 1 /\ ba[i + 1].method = "EndTransaction"
        THEN [idx |-> -1, err |-> Err("EndTransaction sent as non-terminal call")]
    ELSE IF ba[i + 1].method \in {"Put", "EndTransaction"} THEN [idx |-> i, err |-> NoError]
    ELSE firstWriteIndexAnyWriteFrom(ba, i + 1)
firstWriteIndexAnyWrite(ba) == firstWriteIndexAnyWriteFrom(ba, 0)

\* firstWriteIndex: the 0-based index of the first transactional write, -1 if
\* there is none; an error if an EndTransaction is met before the last
\* position.  The scan stops at the first transactional write it meets.
RECURSIVE firstWriteIndexFrom(_, _)
firstWriteIndexFrom(ba, i) ==
    IF i >= Len(ba) THEN [idx |-> -1, err |-> NoError]
    ELSE IF i < Len(ba) - 1 /\ ba[i + 1].method = "EndTransaction"
        THEN [idx |-> -1, err |-> Err("EndTransaction sent as non-terminal call")]
    ELSE IF IsTransactionWrite(ba[i + 1]) THEN [idx |-> i, err |-> NoError]
    ELSE firstWriteIndexFrom(ba, i + 1)

firstWriteIndex(ba) == firstWriteIndexFrom(ba, 0)

\* The test of SendLocked's first lines: a lone EndTransaction with commit=false.
singleRollback(ba) ==
    IsSingleEndTransactionRequest(ba) /\ ~ba[1].commit

\* The BeginTransaction request SendLocked builds, addressed at the anchor key.
BeginTransactionRequest(key) == Req("BeginTransaction", key, FALSE, FALSE)

\* A variant that puts bt at the front of the batch.
InjectBeginTxnAtFront(ba, w, bt) == <<bt>> \o ba

\* The splice of SendLocked: bt goes in at 0-based index w, the requests before
\* it keep their places and the ones from w on move up by one.
InjectBeginTxn(ba, w, bt) ==
    [i \in 1..(Len(ba) + 1) |->
        IF i <= w THEN ba[i] ELSE IF i = w + 1 THEN bt ELSE ba[i - 1]]

\* br.Responses with the slot at 0-based index w removed.
RemoveResponse(resps, w) ==
    [i \in 1..(Len(resps) - 1) |-> IF i <= w THEN resps[i] ELSE resps[i + 1]]

\* A variant that decrements the index of the injected request too.
AdjustErrorIndexOffByOne(pErr, w) ==
    IF pErr = NoError \/ pErr.index = NoIndex THEN pErr
    ELSE IF pErr.index >= w /\ pErr.index > 0 THEN [pErr EXCEPT !.index = pErr.index - 1]
    ELSE pErr

\* The index adjustment of an error returned for a batch with an injected
\* BeginTransaction at 0-based index w.
AdjustErrorIndex(pErr, w) ==
    IF pErr = NoError \/ pErr.index = NoIndex THEN pErr
    ELSE IF pErr.index = w THEN [pErr EXCEPT !.index = NoIndex]
    ELSE IF pErr.index > w THEN [pErr EXCEPT !.index = pErr.index - 1]
    ELSE pErr

\* Transaction.Update: the merge of a returned snapshot into the local record.
\* A snapshot that is no longer PENDING overwrites the local status.
Update(t, o) ==
    IF o = NoTxn THEN t
    ELSE [t EXCEPT !.Status = IF o.Status # PENDING THEN o.Status ELSE @]

\* ------------------------------------------------------------------- state
VARIABLES
    eagerRecord,    \* h.eagerRecord
    lazyTxnRecord,  \* h.st.Version.IsActive(cluster.VersionLazyTxnRecord)
    needBeginTxn,   \* h.mu.needBeginTxn
    txnEnd,         \* h.mu.txnEnd: the liveness channel, NoChan when nil
    finalErr,       \* h.mu.finalErr, NoError when nil
    txn,            \* h.mu.txn: [Status, Key, Writing]
    closed,         \* the liveness channels that have been closed
    tasks,          \* the heartbeatLoop goroutines: [pc, made, closer, finalErr]
    quiescing,      \* h.stopper.ShouldQuiesce() is closed
    fatal,          \* the message of the log.Fatal that halted the process
    callbacks,      \* invocations of h.asyncAbortCallbackLocked
    abortTasks,     \* scheduled "aborting txn" tasks that have not run yet
    call,           \* the frame of the foreground SendLocked call
    step            \* the last step: its operation and what it handed to a sender

vars == <<eagerRecord, lazyTxnRecord, needBeginTxn, txnEnd, finalErr, txn, closed,
          tasks, quiescing, fatal, callbacks, abortTasks, call, step>>

hbVars == <<needBeginTxn, txnEnd, finalErr, txn, closed, tasks>>
config == <<eagerRecord, lazyTxnRecord>>

TaskIds == 1..MaxLoops
Chans == 1..(2 * MaxLoops + 1)

\* Transaction.Clone: a deep copy, equal to the record field by field.
Clone(t) == [Status |-> t.Status, Key |-> t.Key, Writing |-> t.Writing]
\* The step took no clone.
NoClone == [Status |-> Nil, Key |-> NoKey, Writing |-> FALSE]

IdleTask == [pc |-> "idle", made |-> NoChan, closer |-> NoChan, finalErr |-> NoError]
NoFatal == ""
NoSender == "none"

\* A step of operation o that hands nothing to a sender, and one that hands
\* the batch ba to the sender s.
Did(o) ==
    [op |-> o, task |-> 0, to |-> NoSender, ba |-> NoBatch, reply |-> "", snap |-> Nil,
     clone |-> NoClone]
DidSend(o, s, ba) == [Did(o) EXCEPT !.to = s, !.ba = ba]
\* The same, having cloned the record into c for the Txn of a batch it built.
Cloning(c, st) == [st EXCEPT !.clone = c]
\* The same, of goroutine t; and a step on the reply r of the gatekeeper.
By(t, st) == [st EXCEPT !.task = t]
On(r, st) == [st EXCEPT !.reply = r.type, !.snap = r.txn.Status]

\* The frame of a call that has not been made.
\*   ba, baTxn    the batch as the caller built it, and its Txn after SendLocked
\*   fwd          the batch handed to the wrapped sender, NoBatch if none was
\*   w            firstWriteIdx
\*   need, added  the locals needBeginTxn and addedBeginTxn
\*   wbr, wpErr   what the wrapped sender returned
\*   br, pErr     what SendLocked returned
NoCall ==
    [st |-> "none", ba |-> NoBatch, baTxn |-> [Key |-> NoKey, Writing |-> FALSE],
     fwd |-> NoBatch, w |-> -1, need |-> FALSE, added |-> FALSE,
     wbr |-> NoResponse, wpErr |-> NoError, br |-> NoResponse, pErr |-> NoError]

\* The process runs and no foreground call is under way.  The second part of
\* SendLocked reads and writes its own frame only, so a step of anyone else
\* between its two parts leaves the same state as that step after the return:
\* the others take their steps between the foreground calls.
Ready == fatal = NoFatal /\ call.st = "none"

Live(tk) == {t \in TaskIds : tk[t].pc # "idle"}

\* The closed channels some goroutine still holds; the others are garbage.
LiveClosed(cl, tk) ==
    {c \in cl : \E t \in Live(tk) : tk[t].closer = c \/ tk[t].made = c}

\* A channel nobody holds.
Unused(c) ==
    /\ c # txnEnd
    /\ c \notin closed
    /\ \A t \in Live(tasks) : tasks[t].closer # c /\ tasks[t].made # c

\* make(chan struct{})
FreshChan == CHOOSE c \in Chans : Unused(c) /\ \A d \in Chans : Unused(d) => c <= d

\* The slot of the next goroutine.
FreeSlot ==
    CHOOSE t \in TaskIds :
        tasks[t].pc = "idle" /\ \A u \in TaskIds : tasks[u].pc = "idle" => t <= u

Init ==
    /\ eagerRecord \in BOOLEAN
    /\ lazyTxnRecord \in BOOLEAN
    /\ needBeginTxn = TRUE
    /\ txnEnd = NoChan
    /\ finalErr = NoError
    /\ txn = [Status |-> PENDING, Key |-> NoKey, Writing |-> FALSE]
    /\ closed = {}
    /\ tasks = [t \in TaskIds |-> IdleTask]
    /\ quiescing = FALSE
    /\ fatal = NoFatal
    /\ callbacks = 0
    /\ abortTasks = 0
    /\ call = NoCall
    /\ step = Did("new")

\* ------------------------------------------------------- SendLocked, part 1
\* A variant that lets every lone EndTransaction through, commits included.
rejectedByFinalErrButAnyEndTxn(ba) ==
    finalErr # NoError /\ ~IsSingleEndTransactionRequest(ba)

\* "If finalErr is set, we reject everything but rollbacks."
rejectedByFinalErr(ba) == finalErr # NoError /\ ~singleRollback(ba)

\* needBeginTxn := haveTxnWrite && h.mu.needBeginTxn
needBeginOnEveryWrite(ba) == firstWriteIndex(ba).idx # -1

\* The needBeginTxn local of SendLocked.
needBegin(ba) == firstWriteIndex(ba).idx # -1 /\ needBeginTxn

\* A variant that leaves the record's key as it finds it.
anchorKeyLeftAlone(ba, w) == txn.Key

\* A variant that moves the anchor to the first write of every begin.
anchorKeyOfEveryBegin(ba, w) == ba[w + 1].key

\* The anchor after the write at 0-based index w has been looked at: the
\* record's key if it has one, the key of that write otherwise.
anchorKey(ba, w) == IF txn.Key = NoKey THEN ba[w + 1].key ELSE txn.Key

\* A variant that injects the marker whatever the settings.
addBeginTxnAlways == TRUE

\* A variant that forgets the version gate.
addBeginTxnEagerOnly == eagerRecord

\* Whether a BeginTransaction is injected.
addBeginTxn == eagerRecord \/ ~lazyTxnRecord

\* A variant that starts the loop whether or not one is marked active.
startsLoopWhateverMarker(ba) == ~HaveEndTxn(ba)

\* A variant that starts the loop for a one-phase commit too.
startsLoopEvenWithEndTxn(ba) == txnEnd = NoChan

\* Whether SendLocked starts the heartbeat loop for a batch that needs a begin.
startsLoop(ba) == txnEnd = NoChan /\ ~HaveEndTxn(ba)

\* stopper.RunAsyncTask fails exactly when the stopper is quiescing.
RunAsyncTaskErr ==
    IF quiescing THEN Err("node unavailable; try another peer") ELSE NoError

\* A variant without the check for a loop that is already active.
startHeartbeatLoopLockedUnchecked ==
    [fatal |-> NoFatal,
     txnEnd |-> FreshChan,
     tasks |-> IF RunAsyncTaskErr = NoError
               THEN [tasks EXCEPT ![FreeSlot] =
                        [pc |-> "start", made |-> FreshChan, closer |-> NoChan,
                         finalErr |-> NoError]]
               ELSE tasks,
     err |-> RunAsyncTaskErr]

\* A variant that drops the error of RunAsyncTask.
startHeartbeatLoopLockedSwallowsErr ==
    [fatal |-> IF txnEnd # NoChan THEN "attempting to start a second heartbeat loop"
               ELSE NoFatal,
     txnEnd |-> IF txnEnd # NoChan THEN txnEnd ELSE FreshChan,
     tasks |-> IF txnEnd = NoChan /\ RunAsyncTaskErr = NoError
               THEN [tasks EXCEPT ![FreeSlot] =
                        [pc |-> "start", made |-> FreshChan, closer |-> NoChan,
                         finalErr |-> NoError]]
               ELSE tasks,
     err |-> NoError]

\* startHeartbeatLoopLocked: the values it leaves behind.  log.Fatal ends the
\* process before anything is made.  The channel is made before the task is
\* scheduled, so a failed scheduling leaves it in place.
startHeartbeatLoopLocked ==
    [fatal |-> IF txnEnd # NoChan THEN "attempting to start a second heartbeat loop"
               ELSE NoFatal,
     txnEnd |-> IF txnEnd # NoChan THEN txnEnd ELSE FreshChan,
     tasks |-> IF txnEnd = NoChan /\ RunAsyncTaskErr = NoError
               THEN [tasks EXCEPT ![FreeSlot] =
                        [pc |-> "start", made |-> FreshChan, closer |-> NoChan,
                         finalErr |-> NoError]]
               ELSE tasks,
     err |-> RunAsyncTaskErr]

\* A variant that marks the batch's Txn writing before it returns.
RejectedCallMarksWriting(ba, baTxn, w, need, e) ==
    [NoCall EXCEPT !.st = "returned", !.ba = ba,
                   !.baTxn = [baTxn EXCEPT !.Writing = TRUE], !.w = w,
                   !.need = need, !.pErr = e]

\* The frame of a call that returned e without forwarding anything.
RejectedCall(ba, baTxn, w, need, e) ==
    [NoCall EXCEPT !.st = "returned", !.ba = ba, !.baTxn = baTxn, !.w = w,
                   !.need = need, !.pErr = e]

\* The frame of a call whose batch fwd is with the wrapped sender.
ForwardedCall(ba, baTxn, fwd, w, need, added) ==
    [NoCall EXCEPT !.st = "inflight", !.ba = ba, !.baTxn = baTxn, !.fwd = fwd,
                   !.w = w, !.need = need, !.added = added]

\* SendLocked up to the point where the wrapped sender has the batch and the
\* mutex is released for the round trip, or up to its early return.
SendLockedCall(ba) ==
    /\ Ready
    /\ UNCHANGED <<config, closed, quiescing, callbacks, abortTasks>>
    /\ LET fw == firstWriteIndex(ba)
           w == fw.idx
           baTxn == [Key |-> txn.Key, Writing |-> txn.Writing]
       IN
       IF rejectedByFinalErr(ba) THEN
            /\ call' = RejectedCall(ba, baTxn, -1, FALSE, finalErr)
            /\ step' = Did("SendLocked")
            /\ UNCHANGED <<needBeginTxn, txnEnd, finalErr, txn, tasks, fatal>>
       ELSE IF fw.err # NoError THEN
            /\ call' = RejectedCall(ba, baTxn, w, FALSE, fw.err)
            /\ step' = Did("SendLocked")
            /\ UNCHANGED <<needBeginTxn, txnEnd, finalErr, txn, tasks, fatal>>
       ELSE IF ~needBegin(ba) THEN
            /\ call' = ForwardedCall(ba, baTxn, ba, w, FALSE, FALSE)
            /\ step' = DidSend("SendLocked", Wrapped, ba)
            /\ UNCHANGED <<needBeginTxn, txnEnd, finalErr, txn, tasks, fatal>>
       ELSE
            LET key == anchorKey(ba, w)
                newTxn == [Key |-> key, Writing |-> TRUE]
                added == addBeginTxn
                fwd == IF added
                       THEN InjectBeginTxn(ba, w, BeginTransactionRequest(key))
                       ELSE ba
                start == startsLoop(ba)
                sl == startHeartbeatLoopLocked
            IN
            /\ (start /\ ~quiescing) => \E t \in TaskIds : tasks[t].pc = "idle"
            /\ needBeginTxn' = FALSE
            /\ txn' = [txn EXCEPT !.Writing = TRUE, !.Key = key]
            /\ IF start /\ sl.fatal # NoFatal THEN
                    /\ fatal' = sl.fatal
                    /\ step' = Did("SendLocked")
                    /\ UNCHANGED <<txnEnd, finalErr, tasks, call>>
               ELSE IF start /\ sl.err # NoError THEN
                    /\ txnEnd' = sl.txnEnd
                    /\ tasks' = sl.tasks
                    /\ finalErr' = sl.err
                    /\ call' = RejectedCall(ba, newTxn, w, TRUE, sl.err)
                    /\ step' = Did("SendLocked")
                    /\ UNCHANGED fatal
               ELSE
                    /\ txnEnd' = IF start THEN sl.txnEnd ELSE txnEnd
                    /\ tasks' = IF start THEN sl.tasks ELSE tasks
                    /\ call' = ForwardedCall(ba, newTxn, fwd, w, TRUE, added)
                    /\ step' = DidSend("SendLocked", Wrapped, fwd)
                    /\ UNCHANGED <<fatal, finalErr>>

\* ------------------------------------------------------- SendLocked, part 2
\* What the wrapped sender may return for the batch fwd: a response with one
\* slot per request, or an error with or without the index of a request.
WrappedResults(fwd) ==
    {[br |-> [i \in 1..Len(fwd) |-> RespFor(fwd[i])], pErr |-> NoError]}
    \cup {[br |-> NoResponse, pErr |-> ErrAt("wrapped sender error", i)] :
            i \in {NoIndex} \cup 0..(Len(fwd) - 1)}

\* SendLocked from the return of the wrapped sender to its own return.
SendLockedReturn(res) ==
    /\ fatal = NoFatal
    /\ call.st = "inflight"
    /\ step' = Did("SendLockedReturn")
    /\ call' = [call EXCEPT
            !.st = "returned",
            !.wbr = res.br,
            !.wpErr = res.pErr,
            !.br = IF call.added /\ res.br # NoResponse
                   THEN RemoveResponse(res.br, call.w) ELSE res.br,
            !.pErr = IF call.added THEN AdjustErrorIndex(res.pErr, call.w)
                     ELSE res.pErr]
    /\ UNCHANGED <<config, hbVars, quiescing, fatal, callbacks, abortTasks>>

\* The caller has the result; the frame is gone.
SendLockedDone ==
    /\ fatal = NoFatal
    /\ call.st = "returned"
    /\ call' = NoCall
    /\ step' = Did("SendLockedDone")
    /\ UNCHANGED <<config, hbVars, quiescing, fatal, callbacks, abortTasks>>

\* startHeartbeatLoopLocked called on its own, with the mutex held, in
\* whatever state the heartbeater is in; the error it returns is the caller's.
StartHeartbeatLoop ==
    /\ Ready
    /\ ~quiescing => \E t \in TaskIds : tasks[t].pc = "idle"
    /\ step' = Did("startHeartbeatLoopLocked")
    /\ LET sl == startHeartbeatLoopLocked IN
       /\ fatal' = sl.fatal
       /\ txnEnd' = sl.txnEnd
       /\ tasks' = sl.tasks
    /\ UNCHANGED call
    /\ UNCHANGED <<config, needBeginTxn, finalErr, txn, closed, quiescing, callbacks,
                   abortTasks>>

\* ------------------------------------------------------- the other hooks
\* A variant that starts the new epoch without an anchor.
epochBumpedLockedDropsAnchor ==
    /\ Ready
    /\ step' = Did("epochBumpedLocked")
    /\ needBeginTxn' = TRUE
    /\ txn' = [txn EXCEPT !.Key = NoKey, !.Writing = FALSE]
    /\ UNCHANGED call
    /\ UNCHANGED <<config, txnEnd, finalErr, closed, tasks, quiescing, fatal,
                   callbacks, abortTasks>>

\* epochBumpedLocked: the next write of the new epoch needs a BeginTransaction.
epochBumpedLocked ==
    /\ Ready
    /\ step' = Did("epochBumpedLocked")
    /\ needBeginTxn' = TRUE
    /\ UNCHANGED call
    /\ UNCHANGED <<config, txnEnd, finalErr, txn, closed, tasks, quiescing, fatal,
                   callbacks, abortTasks>>

\* A variant that closes the channel and keeps it as the marker.
closeLockedResultKeepsMarker ==
    IF txnEnd = NoChan THEN [txnEnd |-> txnEnd, closed |-> closed]
    ELSE [txnEnd |-> txnEnd, closed |-> LiveClosed(closed \cup {txnEnd}, tasks)]

\* closeLocked: the values it leaves in txnEnd and closed.
closeLockedResult ==
    IF txnEnd = NoChan THEN [txnEnd |-> txnEnd, closed |-> closed]
    ELSE [txnEnd |-> NoChan, closed |-> LiveClosed(closed \cup {txnEnd}, tasks)]

closeLocked ==
    /\ Ready
    /\ step' = Did("closeLocked")
    /\ txnEnd' = closeLockedResult.txnEnd
    /\ closed' = closeLockedResult.closed
    /\ UNCHANGED call
    /\ UNCHANGED <<config, needBeginTxn, finalErr, txn, tasks, quiescing, fatal,
                   callbacks, abortTasks>>

\* init: the heartbeater is taken from the pool for a new attempt, once the
\* goroutines and the calls of the previous attempt are gone.  It is handed a
\* new transaction proto and a new callback; txnEnd and finalErr are not
\* among the fields it assigns.
init ==
    /\ Ready
    /\ Live(tasks) = {}
    /\ abortTasks = 0
    /\ step' = Did("init")
    /\ txn' = [Status |-> PENDING, Key |-> NoKey, Writing |-> FALSE]
    /\ needBeginTxn' = TRUE
    /\ callbacks' = 0
    /\ call' = NoCall
    /\ UNCHANGED <<config, txnEnd, finalErr, closed, tasks, quiescing, fatal,
                   abortTasks>>

\* ------------------------------------------------------- the heartbeat loop
HeartbeatTxn(key) == Req("HeartbeatTxn", key, FALSE, FALSE)

\* A variant that sends the heartbeat down the interceptor stack.
HeartbeatSenderDownStack == Wrapped

\* The sender heartbeat() hands its request to.
HeartbeatSender == Gatekeeper

\* A variant that sends the rollback past the interceptor stack.
AbortSenderPastStack == Gatekeeper

\* The sender the "aborting txn" task hands the rollback to.
AbortSender == Wrapped

\* The request abortTxnAsyncLocked builds.
RollbackRequest == Req("EndTransaction", NoKey, FALSE, TRUE)

SetTask(t, pc, closer, err) ==
    [tasks EXCEPT ![t].pc = pc, ![t].closer = closer, ![t].finalErr = err]

\* heartbeatLoop from its start to the select: it reads h.mu.txnEnd under the
\* mutex and returns if there is none.  From here on the goroutine holds the
\* channel it read; the one made when it was spawned is no longer told apart.
LoopStart(t) ==
    /\ Ready
    /\ tasks[t].pc = "start"
    /\ step' = By(t, Did("LoopStart"))
    /\ tasks' = [(IF txnEnd = NoChan THEN SetTask(t, "exit", NoChan, NoError)
                   ELSE SetTask(t, "select", txnEnd, NoError)) EXCEPT ![t].made = NoChan]
    /\ closed' = LiveClosed(closed, tasks')
    /\ UNCHANGED call
    /\ UNCHANGED <<config, needBeginTxn, txnEnd, finalErr, txn, quiescing,
                   fatal, callbacks, abortTasks>>

\* The select fires on the liveness channel.
LoopClosed(t) ==
    /\ Ready
    /\ tasks[t].pc = "select"
    /\ tasks[t].closer \in closed
    /\ step' = By(t, Did("LoopClosed"))
    /\ tasks' = SetTask(t, "exit", tasks[t].closer, Err("txnHeartbeater already closed"))
    /\ UNCHANGED call
    /\ UNCHANGED <<config, needBeginTxn, txnEnd, finalErr, txn, closed, quiescing,
                   fatal, callbacks, abortTasks>>

\* A variant whose select takes the quiescing case and goes round again.
LoopQuiesceGoesOn(t) ==
    /\ Ready
    /\ tasks[t].pc = "select"
    /\ quiescing
    /\ step' = By(t, Did("LoopQuiesce"))
    /\ UNCHANGED call
    /\ UNCHANGED <<config, hbVars, quiescing, fatal, callbacks, abortTasks>>

\* The select fires on the stopper's quiescing channel.
LoopQuiesce(t) ==
    /\ Ready
    /\ tasks[t].pc = "select"
    /\ quiescing
    /\ step' = By(t, Did("LoopQuiesce"))
    /\ tasks' = SetTask(t, "exit", tasks[t].closer, Err("node already quiescing"))
    /\ UNCHANGED call
    /\ UNCHANGED <<config, needBeginTxn, txnEnd, finalErr, txn, closed, quiescing,
                   fatal, callbacks, abortTasks>>

\* A variant of the deferred function that forgets the goroutine's finalErr.
LoopExitDropsFinalErr(t) ==
    /\ Ready
    /\ tasks[t].pc = "exit"
    /\ step' = By(t, Did("LoopExit"))
    /\ txnEnd' = NoChan
    /\ tasks' = [tasks EXCEPT ![t] = IdleTask]
    /\ closed' = LiveClosed(closed, tasks')
    /\ UNCHANGED call
    /\ UNCHANGED <<config, needBeginTxn, finalErr, txn, quiescing, fatal, callbacks,
                   abortTasks>>

\* A variant of the deferred function that leaves txnEnd as it is.
LoopExitKeepsMarker(t) ==
    /\ Ready
    /\ tasks[t].pc = "exit"
    /\ step' = By(t, Did("LoopExit"))
    /\ finalErr' = IF tasks[t].finalErr # NoError THEN tasks[t].finalErr ELSE finalErr
    /\ tasks' = [tasks EXCEPT ![t] = IdleTask]
    /\ closed' = LiveClosed(closed, tasks')
    /\ UNCHANGED call
    /\ UNCHANGED <<config, needBeginTxn, txnEnd, txn, quiescing, fatal, callbacks,
                   abortTasks>>

\* The deferred function of heartbeatLoop.
LoopExit(t) ==
    /\ Ready
    /\ tasks[t].pc = "exit"
    /\ step' = By(t, Did("LoopExit"))
    /\ finalErr' = IF tasks[t].finalErr # NoError THEN tasks[t].finalErr ELSE finalErr
    /\ txnEnd' = NoChan
    /\ tasks' = [tasks EXCEPT ![t] = IdleTask]
    /\ closed' = LiveClosed(closed, tasks')
    /\ UNCHANGED call
    /\ UNCHANGED <<config, needBeginTxn, txn, quiescing, fatal, callbacks, abortTasks>>

\* The select fires on the ticker; heartbeat() up to the point where the
\* gatekeeper has the request and the mutex is released for the round trip,
\* or up to its early return.
HeartbeatSend(t) ==
    /\ Ready
    /\ tasks[t].pc = "select"
    /\ UNCHANGED call
    /\ UNCHANGED <<config, needBeginTxn, txnEnd, finalErr, txn, closed, quiescing,
                   callbacks, abortTasks>>
    /\ IF txn.Status # PENDING THEN
            IF txnEnd # NoChan THEN
                /\ fatal' = "txn committed or aborted but heartbeat loop hasn't been signaled to stop"
                /\ step' = By(t, Did("heartbeat"))
                /\ UNCHANGED tasks
            ELSE
                /\ tasks' = SetTask(t, "exit", tasks[t].closer, Err("heartbeat failed fatally"))
                /\ step' = By(t, Did("heartbeat"))
                /\ UNCHANGED fatal
       ELSE IF txn.Key = NoKey THEN
            /\ fatal' = "attempting to heartbeat txn without anchor key"
            /\ step' = By(t, Did("heartbeat"))
            /\ UNCHANGED tasks
       ELSE
            /\ tasks' = SetTask(t, "hbflight", tasks[t].closer, NoError)
            /\ step' = Cloning(Clone(txn), By(t, DidSend("heartbeat", HeartbeatSender,
                                                         <<HeartbeatTxn(Clone(txn).Key)>>)))
            /\ UNCHANGED fatal

\* What the gatekeeper may return for a heartbeat: a response with the record,
\* a TransactionStatusError with REASON_TXN_NOT_FOUND, a
\* TransactionAbortedError, or another error with or without a record.
HeartbeatResults ==
    {[type |-> "ok", txn |-> Snapshot(s)] : s \in Statuses}
    \cup {[type |-> "notfound", txn |-> NoTxn], [type |-> "aborted", txn |-> NoTxn]}
    \cup {[type |-> "error", txn |-> x] : x \in {Snapshot(s) : s \in Statuses} \cup {NoTxn}}

\* A variant that schedules the rollback without calling the callback.
abortTxnAsyncLockedSkipsCallback(st) ==
    IF st # ABORTED
    THEN [fatal |-> "abortTxnAsyncLocked called for non-aborted txn",
          callbacks |-> callbacks, abortTasks |-> abortTasks]
    ELSE [fatal |-> NoFatal,
          callbacks |-> callbacks,
          abortTasks |-> IF RunAsyncTaskErr = NoError THEN abortTasks + 1 ELSE abortTasks]

\* A variant that halts the process when the task cannot be scheduled.
abortTxnAsyncLockedEscalates(st) ==
    IF st # ABORTED
    THEN [fatal |-> "abortTxnAsyncLocked called for non-aborted txn",
          callbacks |-> callbacks, abortTasks |-> abortTasks]
    ELSE [fatal |-> IF RunAsyncTaskErr = NoError THEN NoFatal ELSE RunAsyncTaskErr.msg,
          callbacks |-> callbacks + 1,
          abortTasks |-> IF RunAsyncTaskErr = NoError THEN abortTasks + 1 ELSE abortTasks]

\* abortTxnAsyncLocked, called with the record's status st: the values it
\* leaves behind.  A task that cannot be scheduled is logged and dropped.
abortTxnAsyncLocked(st) ==
    IF st # ABORTED
    THEN [fatal |-> "abortTxnAsyncLocked called for non-aborted txn",
          callbacks |-> callbacks, abortTasks |-> abortTasks]
    ELSE [fatal |-> NoFatal,
          callbacks |-> callbacks + 1,
          abortTasks |-> IF RunAsyncTaskErr = NoError THEN abortTasks + 1 ELSE abortTasks]

\* A variant that cleans up after every record that is no longer PENDING.
heartbeatOutcomeAbortsOnAnyEnd(r) ==
    IF r.type = "notfound" THEN [txn |-> txn, abort |-> FALSE, continue |-> TRUE]
    ELSE IF r.type = "aborted"
        THEN [txn |-> [txn EXCEPT !.Status = ABORTED], abort |-> TRUE, continue |-> FALSE]
    ELSE LET merged == Update(txn, r.txn) IN
         [txn |-> merged,
          abort |-> merged.Status # PENDING,
          continue |-> merged.Status = PENDING]

\* A variant that stops heartbeating on an error without a record.
heartbeatOutcomeBareErrorStops(r) ==
    IF r.type = "notfound" THEN [txn |-> txn, abort |-> FALSE, continue |-> TRUE]
    ELSE IF r.type = "aborted"
        THEN [txn |-> [txn EXCEPT !.Status = ABORTED], abort |-> TRUE, continue |-> FALSE]
    ELSE LET merged == Update(txn, r.txn) IN
         [txn |-> merged,
          abort |-> merged.Status = ABORTED,
          continue |-> merged.Status = PENDING /\ ~(r.type = "error" /\ r.txn = NoTxn)]

\* A variant that treats a missing record like any other error.
heartbeatOutcomeNotFoundStops(r) ==
    IF r.type = "aborted"
        THEN [txn |-> [txn EXCEPT !.Status = ABORTED], abort |-> TRUE, continue |-> FALSE]
    ELSE LET merged == Update(txn, r.txn) IN
         [txn |-> merged,
          abort |-> merged.Status = ABORTED,
          continue |-> merged.Status = PENDING /\ r.type # "notfound"]

\* heartbeat() on the reply r: the record it leaves, whether it calls
\* abortTxnAsyncLocked, and whether heartbeating goes on.
heartbeatOutcome(r) ==
    IF r.type = "notfound" THEN [txn |-> txn, abort |-> FALSE, continue |-> TRUE]
    ELSE IF r.type = "aborted"
        THEN [txn |-> [txn EXCEPT !.Status = ABORTED], abort |-> TRUE, continue |-> FALSE]
    ELSE LET merged == Update(txn, r.txn) IN
         [txn |-> merged,
          abort |-> merged.Status = ABORTED,
          continue |-> merged.Status = PENDING]

\* heartbeat() from the return of the gatekeeper to its own return, and the
\* loop's reaction to its result.
HeartbeatRecv(t, r) ==
    /\ Ready
    /\ tasks[t].pc = "hbflight"
    /\ LET o == heartbeatOutcome(r)
           a == abortTxnAsyncLocked(o.txn.Status)
       IN
       /\ step' = Cloning(IF o.abort /\ a.fatal = NoFatal THEN Clone(o.txn) ELSE NoClone,
                          On(r, By(t, Did("heartbeatReply"))))
       /\ txn' = o.txn
       /\ fatal' = IF o.abort THEN a.fatal ELSE NoFatal
       /\ callbacks' = IF o.abort THEN a.callbacks ELSE callbacks
       /\ abortTasks' = IF o.abort THEN a.abortTasks ELSE abortTasks
       /\ tasks' = IF o.continue THEN SetTask(t, "select", tasks[t].closer, NoError)
                   ELSE SetTask(t, "exit", tasks[t].closer, Err("heartbeat failed fatally"))
    /\ UNCHANGED call
    /\ UNCHANGED <<config, needBeginTxn, txnEnd, finalErr, closed, quiescing>>

\* The "aborting txn" task: the rollback goes down the interceptor stack.
AbortTaskRun ==
    /\ Ready
    /\ abortTasks > 0
    /\ abortTasks' = abortTasks - 1
    /\ step' = DidSend("abortTask", AbortSender, <<RollbackRequest>>)
    /\ UNCHANGED call
    /\ UNCHANGED <<config, hbVars, quiescing, fatal, callbacks>>

\* ------------------------------------------------------- the environment
\* The stopper starts quiescing.
Quiesce ==
    /\ Ready
    /\ ~quiescing
    /\ step' = Did("Quiesce")
    /\ quiescing' = TRUE
    /\ UNCHANGED call
    /\ UNCHANGED <<config, hbVars, fatal, callbacks, abortTasks>>

\* The coordinator learns from a foreground response that the transaction is
\* finished: it updates the record and closes the heartbeater in one critical
\* section.  A commit response may follow an abort seen by a heartbeat.
CoordFinalize(s) ==
    /\ Ready
    /\ \/ txn.Status = PENDING
       \/ txn.Status = ABORTED /\ s = COMMITTED
    /\ step' = Did("CoordFinalize")
    /\ txn' = [txn EXCEPT !.Status = s]
    /\ txnEnd' = closeLockedResult.txnEnd
    /\ closed' = closeLockedResult.closed
    /\ UNCHANGED call
    /\ UNCHANGED <<config, needBeginTxn, finalErr, tasks, quiescing, fatal, callbacks,
                   abortTasks>>

\* ------------------------------------------------------- specifications
\* The foreground calls, with their batches drawn from B.
Sends(B) ==
    \/ \E ba \in B : SendLockedCall(ba)
    \/ \E res \in WrappedResults(call.fwd) : SendLockedReturn(res)
    \/ SendLockedDone

\* The coordinator's other entry points.
Hooks ==
    \/ epochBumpedLocked
    \/ closeLocked
    \/ init

\* The steps of the heartbeatLoop goroutines outside heartbeat().
LoopSteps ==
    \/ \E t \in TaskIds : LoopStart(t)
    \/ \E t \in TaskIds : LoopClosed(t)
    \/ \E t \in TaskIds : LoopQuiesce(t)
    \/ \E t \in TaskIds : LoopExit(t)

\* The heartbeats and the cleanup they trigger.
HeartbeatSteps ==
    \/ \E t \in TaskIds : HeartbeatSend(t)
    \/ \E t \in TaskIds, r \in HeartbeatResults : HeartbeatRecv(t, r)
    \/ AbortTaskRun

\* The whole system: foreground calls, hooks, loop goroutines, heartbeats,
\* cleanup tasks and the environment, interleaved.
Next ==
    \/ Sends(ShortBatches)
    \/ Hooks
    \/ LoopSteps
    \/ HeartbeatSteps
    \/ Quiesce
    \/ \E s \in {COMMITTED, ABORTED} : CoordFinalize(s)

\* The cluster version has the lazy transaction record active.
InitLazy == Init /\ lazyTxnRecord

Spec == InitLazy /\ [][Next]_vars

\* The foreground path: SendLocked on every batch of up to MaxBatch requests,
\* under both settings of the version gate, with the hooks and the stopper;
\* the loop goroutines it starts are not scheduled and no heartbeat is sent.
NextSend ==
    \/ Sends(Batches)
    \/ Hooks
    \/ Quiesce

SpecSend == Init /\ [][NextSend]_vars

\* startHeartbeatLoopLocked exercised directly, in the states the foreground
\* path, the hooks and the stopper leave behind.
NextStart ==
    \/ Sends(ShortBatches)
    \/ Hooks
    \/ Quiesce
    \/ StartHeartbeatLoop

SpecStart == Init /\ [][NextStart]_vars

\* The replies that keep the loop going, and one that stops it.
LiveResults ==
    {r \in HeartbeatResults :
        \/ r.type = "ok" /\ r.txn.Status = PENDING
        \/ r.type \in {"notfound", "aborted"}}

\* The loops with one kind of foreground batch, these replies and no
\* re-initialization.
NextLive ==
    \/ Sends({<<Put("k1")>>})
    \/ epochBumpedLocked
    \/ closeLocked
    \/ LoopSteps
    \/ \E t \in TaskIds : HeartbeatSend(t)
    \/ \E t \in TaskIds, r \in LiveResults : HeartbeatRecv(t, r)
    \/ AbortTaskRun
    \/ Quiesce

InitLive == Init /\ lazyTxnRecord /\ ~eagerRecord

\* The scheduling the loops can count on.  The mutex hands itself to every
\* goroutine that keeps asking for it, so a goroutine at its start, in its
\* deferred function or with a reply to take gets its step; a select takes
\* every case that is ready again and again, so the closed channel or the
\* quiescing stopper is noticed although the ticker keeps firing.  The wrapped
\* sender and the gatekeeper return.
Fairness ==
    /\ \A t \in TaskIds :
        /\ SF_vars(LoopStart(t) \/ LoopExit(t) \/ \E r \in LiveResults : HeartbeatRecv(t, r))
        /\ SF_vars(LoopClosed(t) \/ LoopQuiesce(t))
    /\ WF_vars((\E res \in WrappedResults(call.fwd) : SendLockedReturn(res)) \/ SendLockedDone)

SpecLive == InitLive /\ [][NextLive]_vars /\ Fairness

\* The foreground path of one transaction whose heartbeater is never closed
\* and never re-initialized.
NextOpen ==
    \/ Sends(Batches)
    \/ epochBumpedLocked
    \/ Quiesce

SpecOpen == Init /\ [][NextOpen]_vars

\* ------------------------------------------------------------ properties
\* The positions of the transactional writes of a batch, 1-based.
WritePositions(ba) == {i \in 1..Len(ba) : ba[i].method = "Put"}

\* An EndTransaction stands before the last position.
NonTerminalEndTxn(ba) == \E i \in 1..(Len(ba) - 1) : ba[i].method = "EndTransaction"

\* The 0-based index of the first transactional write of a batch that has one.
FirstWrite(ba) ==
    (CHOOSE i \in WritePositions(ba) : \A j \in WritePositions(ba) : i <= j) - 1

\* This step is the first part of a SendLocked call.
SendLockedStep == call.st = "none" /\ call'.st # "none"

\* The call of this step handed its batch, as fwd, to the wrapped sender.
Forwards(fwd) ==
    /\ call'.st = "inflight"
    /\ call'.fwd = fwd
    /\ step'.to = Wrapped
    /\ step'.ba = fwd

\* The call of this step returned e and handed nothing to any sender.
Rejects(e) ==
    /\ call'.st = "returned"
    /\ call'.fwd = NoBatch
    /\ call'.br = NoResponse
    /\ call'.pErr = e
    /\ step'.to = NoSender

\* C1: with finalErr set, SendLocked forwards a lone EndTransaction with
\* commit=false unchanged, and returns finalErr for every other batch without
\* handing anything to a sender.
C1_OnlyRollbackPassesFinalErr ==
    [][(SendLockedStep /\ finalErr # NoError) =>
        LET ba == call'.ba IN
        IF Len(ba) = 1 /\ ba[1].method = "EndTransaction" /\ ~ba[1].commit
        THEN Forwards(ba)
        ELSE Rejects(finalErr) /\ finalErr' = finalErr]_vars

\* A batch other than a rollback has been returned the finalErr that was set.
C1_Witness ==
    /\ call.st = "returned"
    /\ finalErr # NoError
    /\ ~call.need
    /\ call.pErr = finalErr
    /\ Len(call.ba) = 2
    /\ call.ba[2] = EndTxn(FALSE)

\* C2: with finalErr unset, every batch with an EndTransaction before its last
\* position is returned the "sent as non-terminal call" error and nothing is
\* forwarded, whatever precedes the EndTransaction.
C2_NonTerminalEndTxnFails ==
    [][(SendLockedStep /\ finalErr = NoError /\ NonTerminalEndTxn(call'.ba)) =>
        Rejects(Err("EndTransaction sent as non-terminal call"))]_vars

\* C3, as claimed: a batch with exactly one transactional write, sent while
\* needBeginTxn is true, is forwarded with one more request, and the response
\* returned has as many slots as the batch.
C3_OneWriteOneMarker ==
    (call.st # "none" /\ call.fwd # NoBatch /\ call.need
        /\ Cardinality(WritePositions(call.ba)) = 1) =>
        /\ Len(call.fwd) = Len(call.ba) + 1
        /\ (call.st = "returned" /\ call.br # NoResponse) => Len(call.br) = Len(call.ba)

\* C3, amended: the same when eagerRecord is set or the lazy transaction
\* record is not active; otherwise the batch is forwarded as it is.  In both
\* cases the response returned has as many slots as the batch.
C3_OneWriteOneMarkerIfEager ==
    (call.st # "none" /\ call.fwd # NoBatch /\ call.need
        /\ Cardinality(WritePositions(call.ba)) = 1) =>
        /\ IF eagerRecord \/ ~lazyTxnRecord
           THEN Len(call.fwd) = Len(call.ba) + 1
           ELSE call.fwd = call.ba
        /\ (call.st = "returned" /\ call.br # NoResponse) => Len(call.br) = Len(call.ba)

\* A batch of three requests with one write has come back with its response,
\* the marker's slot removed, the version gate being what asked for the marker.
C3_Witness ==
    /\ call.st = "returned"
    /\ call.need
    /\ ~eagerRecord /\ ~lazyTxnRecord
    /\ Cardinality(WritePositions(call.ba)) = 1
    /\ Len(call.ba) = 3
    /\ Len(call.fwd) = 4
    /\ Len(call.br) = 3

\* C4: with eagerRecord set and needBeginTxn true, a forwarded batch whose
\* first transactional write is at index w is the original with a
\* BeginTransaction on the anchor key at index w: the requests before w keep
\* their places, the write and what follows move up by one.  The anchor is the
\* record's key, which is the key of that write if the record had none.
C4_MarkerBeforeFirstWrite ==
    [][(SendLockedStep /\ eagerRecord /\ needBeginTxn /\ call'.st = "inflight"
            /\ WritePositions(call'.ba) # {}) =>
        LET ba == call'.ba
            fwd == call'.fwd
            w == FirstWrite(ba)
        IN
        /\ Len(fwd) = Len(ba) + 1
        /\ \A i \in 0..(w - 1) : fwd[i + 1] = ba[i + 1]
        /\ fwd[w + 1] = Req("BeginTransaction", txn'.Key, FALSE, FALSE)
        /\ \A i \in w..(Len(ba) - 1) : fwd[i + 2] = ba[i + 1]
        /\ txn'.Key = IF txn.Key = NoKey THEN ba[w + 1].key ELSE txn.Key
        /\ step'.to = Wrapped /\ step'.ba = fwd
        /\ (ba = <<Put("k1"), Put("k2")>> /\ txn.Key = NoKey) =>
                fwd = <<Req("BeginTransaction", "k1", FALSE, FALSE), Put("k1"), Put("k2")>>]_vars

\* A marker stands between a read and the first of two writes.
C4_Witness ==
    /\ call.st = "inflight"
    /\ eagerRecord /\ lazyTxnRecord
    /\ call.ba = <<Get("k1"), Put("k2"), Put("k1")>>
    /\ call.fwd[2].method = "BeginTransaction"
    /\ call.fwd[2].key = "k2"

\* C5: with a marker injected at index w, an error the wrapped sender returns
\* with index i comes back without index if i = w, with i - 1 if i > w and with
\* i if i < w; an error without index, and the error's message, come back
\* unchanged.
C5_ErrorIndexAdjusted ==
    (call.st = "returned" /\ call.added /\ call.wpErr # NoError) =>
        LET i == call.wpErr.index
            w == call.w
        IN
        /\ call.fwd[w + 1].method = "BeginTransaction"
        /\ call.pErr.msg = call.wpErr.msg
        /\ call.pErr.index =
            IF i = NoIndex THEN NoIndex
            ELSE IF i = w THEN NoIndex
            ELSE IF i > w THEN i - 1
            ELSE i

\* An error on the request after the marker has come back one index lower,
\* and there was a request before the marker.
C5_Witness ==
    /\ call.st = "returned"
    /\ call.added
    /\ call.w = 1
    /\ call.wpErr.index = 2
    /\ call.pErr.index = 1

\* C6: a SendLocked call that finds needBeginTxn true and a transactional
\* write in its batch leaves needBeginTxn false; a call that finds it false
\* adds no marker, and forwards its batch, if at all, as it is; and only an
\* epoch bump or a re-initialization makes needBeginTxn true again.
C6_OneMarkerPerEpoch ==
    /\ [][(SendLockedStep /\ needBeginTxn /\ WritePositions(call'.ba) # {}
                /\ call'.fwd # NoBatch) => ~needBeginTxn']_vars
    /\ [][(SendLockedStep /\ ~needBeginTxn) =>
            /\ ~needBeginTxn'
            /\ ~call'.added
            /\ call'.fwd # NoBatch => Forwards(call'.ba)
            /\ \A i \in 1..Len(call'.fwd) : call'.fwd[i].method # "BeginTransaction"]_vars
    /\ [][(~needBeginTxn /\ needBeginTxn') =>
            step'.op \in {"epochBumpedLocked", "init"}]_vars

\* A second batch of writes is with the wrapped sender, without a marker.
C6_Witness ==
    /\ call.st = "inflight"
    /\ ~needBeginTxn
    /\ ~call.need
    /\ addBeginTxn
    /\ txn.Writing
    /\ call.fwd = <<Put("k2"), Put("k1")>>

\* C7: epochBumpedLocked sets needBeginTxn and changes nothing else: not the
\* record, not txnEnd, not finalErr, no loop.
C7_EpochBumpOnlyRearms ==
    [][(step'.op = "epochBumpedLocked") =>
        /\ needBeginTxn'
        /\ UNCHANGED <<txn, txnEnd, finalErr, closed, tasks, eagerRecord, lazyTxnRecord,
                       quiescing, fatal, callbacks, abortTasks, call>>]_vars

\* The epoch was bumped with a write sent, a loop running and finalErr set.
C7_Witness ==
    /\ step.op = "epochBumpedLocked"
    /\ needBeginTxn
    /\ txn.Writing /\ txn.Key = "k2"
    /\ txnEnd # NoChan
    /\ finalErr # NoError
    /\ \E t \in TaskIds : tasks[t].pc = "hbflight"

\* This step is heartbeat() taking a reply that says the transaction is
\* aborted: a TransactionAbortedError, or a record whose status is ABORTED.
AbortReplyStep ==
    /\ step'.op = "heartbeatReply"
    /\ step'.reply = "aborted" \/ step'.snap = ABORTED

\* What an aborted reply does whether or not the rollback can be scheduled,
\* and what the rollback task and a stopped loop do.
AbortCleanupStep(scheduled) ==
    /\ AbortReplyStep =>
            /\ tasks[step'.task].pc = "hbflight"
            /\ txn'.Status = ABORTED
            /\ tasks'[step'.task].pc = "exit"
            /\ \A t \in TaskIds \ {step'.task} : tasks'[t] = tasks[t]
            /\ callbacks' = callbacks + 1
            /\ abortTasks' = abortTasks + scheduled
            /\ step'.to = NoSender
    /\ (callbacks' > callbacks \/ abortTasks' > abortTasks) =>
            step'.op = "heartbeatReply" /\ txn'.Status = ABORTED
    /\ (step'.op = "abortTask") =>
            /\ abortTasks' = abortTasks - 1
            /\ step'.to = Wrapped
            /\ step'.ba = <<Req("EndTransaction", NoKey, FALSE, TRUE)>>
    /\ \A t \in TaskIds : tasks[t].pc = "exit" => tasks'[t].pc \in {"exit", "idle"}
    /\ (step'.to = Gatekeeper) => txn.Status = PENDING

\* C8, as claimed: on a reply that says the transaction is aborted the status
\* becomes ABORTED, the loop stops, the callback is called once and one
\* rollback is scheduled, which goes to the wrapped sender as
\* EndTransaction(commit=false, poison=true); no heartbeat follows.
C8_AbortCleansUp == [][AbortCleanupStep(1)]_vars

\* C8, amended: the same, but the rollback is scheduled only if the stopper
\* is not quiescing; if it is, the callback is still called and nothing is sent.
C8_AbortCleansUpUnlessQuiescing ==
    [][AbortCleanupStep(IF quiescing THEN 0 ELSE 1)]_vars

\* A TransactionAbortedError came back: status ABORTED, the loop on its way
\* out, the callback called and the rollback scheduled.
C8_Witness ==
    /\ step.op = "heartbeatReply"
    /\ step.reply = "aborted"
    /\ txn.Status = ABORTED
    /\ tasks[step.task].pc = "exit"
    /\ callbacks = 1
    /\ abortTasks = 1
    /\ ~quiescing

\* C9: a heartbeat that fails with "transaction record not found" changes
\* nothing: the loop goes on, finalErr stays unset, the record, needBeginTxn and
\* txnEnd keep their values, no callback is called and no rollback scheduled.
C9_NotFoundIgnored ==
    [][(step'.op = "heartbeatReply" /\ step'.reply = "notfound") =>
        /\ tasks[step'.task].pc = "hbflight"
        /\ tasks' = [tasks EXCEPT ![step'.task].pc = "select"]
        /\ tasks'[step'.task].finalErr = NoError
        /\ UNCHANGED <<txn, needBeginTxn, txnEnd, finalErr, closed, callbacks, abortTasks,
                       fatal, call>>
        /\ step'.to = NoSender]_vars

\* A loop is back at its select after a record-not-found reply, finalErr unset.
C9_Witness ==
    /\ step.op = "heartbeatReply"
    /\ step.reply = "notfound"
    /\ tasks[step.task].pc = "select"
    /\ finalErr = NoError
    /\ txn.Status = PENDING
    /\ txnEnd # NoChan

\* C10: a SendLocked call whose batch has no transactional write adds no
\* marker, starts no loop and leaves needBeginTxn, the record and txnEnd as
\* they are; the batch is forwarded as it is unless finalErr or a non-terminal
\* EndTransaction has it returned with that error.
C10_NoWriteNoEffect ==
    [][(SendLockedStep /\ WritePositions(call'.ba) = {}) =>
        /\ ~call'.added
        /\ UNCHANGED <<needBeginTxn, txn, txnEnd, tasks, closed, finalErr, fatal>>
        /\ call'.baTxn = [Key |-> txn.Key, Writing |-> txn.Writing]
        /\ IF finalErr # NoError /\ call'.ba # <<EndTxn(FALSE)>> THEN Rejects(finalErr)
           ELSE IF NonTerminalEndTxn(call'.ba)
                THEN Rejects(Err("EndTransaction sent as non-terminal call"))
           ELSE Forwards(call'.ba)]_vars

\* A read and a commit went down unchanged before any write: no anchor, no
\* loop, needBeginTxn still set.
C10_Witness ==
    /\ call.st = "inflight"
    /\ call.fwd = <<Get("k1"), EndTxn(TRUE)>>
    /\ needBeginTxn
    /\ txn.Key = NoKey /\ ~txn.Writing
    /\ txnEnd = NoChan

\* C11: startHeartbeatLoopLocked called while txnEnd is set ends in the fatal
\* state of its own message, with txnEnd as it was and no goroutine spawned.
C11_SecondStartIsFatal ==
    [][(step'.op = "startHeartbeatLoopLocked" /\ txnEnd # NoChan) =>
        /\ fatal' = "attempting to start a second heartbeat loop"
        /\ UNCHANGED <<txnEnd, tasks, closed, finalErr>>]_vars

\* The fatal state of a second start, with the first loop's channel and its
\* one goroutine still there.
C11_Witness ==
    /\ step.op = "startHeartbeatLoopLocked"
    /\ fatal = "attempting to start a second heartbeat loop"
    /\ txnEnd # NoChan
    /\ Cardinality(Live(tasks)) = 1

\* The goroutines that are in the loop of heartbeatLoop: past the read of
\* txnEnd and not yet on their way out.
InLoop == {t \in TaskIds : tasks[t].pc \in {"select", "hbflight"}}

\* C12: at no time is more than one heartbeatLoop goroutine of the
\* heartbeater in its loop.
C12_AtMostOneLoop == Cardinality(InLoop) <= 1

\* C13: a SendLocked call that has to start the loop while the stopper is
\* quiescing sets finalErr to the scheduling error and returns it, hands
\* nothing to a sender and is not fatal; finalErr stays set, and every later
\* batch other than a lone rollback is returned it.
C13_SchedulingFailureIsFinalErr ==
    /\ [][(SendLockedStep /\ quiescing /\ finalErr = NoError /\ txnEnd = NoChan
                /\ needBeginTxn /\ WritePositions(call'.ba) # {}
                /\ \A i \in 1..Len(call'.ba) : call'.ba[i].method # "EndTransaction") =>
            /\ finalErr' # NoError
            /\ Rejects(finalErr')
            /\ fatal' = NoFatal
            /\ tasks' = tasks]_vars
    /\ [][finalErr # NoError => finalErr' # NoError]_vars
    /\ [][(SendLockedStep /\ finalErr # NoError /\ call'.ba # <<EndTxn(FALSE)>>) =>
            Rejects(finalErr) /\ finalErr' = finalErr]_vars

\* The write that had to start the loop has been returned the scheduling
\* error, which is now finalErr; the process lives.
C13_Witness ==
    /\ call.st = "returned"
    /\ call.need
    /\ quiescing
    /\ finalErr # NoError
    /\ call.pErr = finalErr
    /\ call.fwd = NoBatch
    /\ fatal = NoFatal
    /\ Live(tasks) = {}

C15_CloseIdempotent ==
    [][(step'.op = "closeLocked") =>
        /\ UNCHANGED <<needBeginTxn, finalErr, txn, tasks, quiescing, fatal, callbacks,
                       abortTasks, call, eagerRecord, lazyTxnRecord>>
        /\ txnEnd' = NoChan
        /\ IF txnEnd = NoChan THEN closed' = closed
           ELSE /\ closed \subseteq closed'
                /\ closed' \subseteq closed \cup {txnEnd}
                /\ \A t \in Live(tasks) :
                    (tasks[t].closer = txnEnd \/ tasks[t].made = txnEnd) => txnEnd \in closed'
        /\ closeLockedResult' = [txnEnd |-> txnEnd', closed |-> closed']]_vars

\* closeLocked has closed the channel a goroutine is selecting on.
C15_Witness ==
    /\ step.op = "closeLocked"
    /\ txnEnd = NoChan
    /\ \E t \in TaskIds : tasks[t].pc = "select" /\ tasks[t].closer \in closed

\* C16: init for a new attempt leaves the heartbeater without finalErr and
\* without txnEnd, whatever the attempt before left in them.
C16_InitClearsPreviousAttempt ==
    [][(step'.op = "init") => finalErr' = NoError /\ txnEnd' = NoChan]_vars

\* C17: txnEnd is set if and only if a heartbeatLoop goroutine exists.
C17_MarkerIffLoopRunning == (txnEnd # NoChan) <=> (Live(tasks) # {})

\* Goroutine t leaves for its deferred function in this step.
Leaves(t) == tasks[t].pc \notin {"idle", "exit"} /\ tasks'[t].pc = "exit"

\* The finalErr a goroutine takes to its deferred function, by the way it
\* leaves; early says what a goroutine takes that finds txnEnd nil at its start.
ExitSentinelStep(early) ==
    /\ \A t \in TaskIds : Leaves(t) =>
            tasks'[t].finalErr =
                IF step'.op \in {"heartbeat", "heartbeatReply"} THEN Err("heartbeat failed fatally")
                ELSE IF step'.op = "LoopClosed" THEN Err("txnHeartbeater already closed")
                ELSE IF step'.op = "LoopQuiesce" THEN Err("node already quiescing")
                ELSE early
    /\ (step'.op = "LoopExit") =>
            /\ tasks[step'.task].finalErr = early \/ finalErr' = tasks[step'.task].finalErr
            /\ tasks[step'.task].finalErr = NoError => finalErr' = finalErr
            /\ early # NoError => finalErr' # NoError
    /\ (SendLockedStep /\ finalErr # NoError /\ call'.ba # <<EndTxn(FALSE)>>) =>
            Rejects(finalErr)
    /\ finalErr # NoError => finalErr' # NoError

\* C18, as claimed: every goroutine that leaves takes a sentinel with it,
\* which its deferred function stores in finalErr: "heartbeat failed fatally"
\* after a heartbeat that said stop, "txnHeartbeater already closed" after the
\* channel's case, "node already quiescing" after the stopper's; finalErr
\* stays set and rejects every batch but a lone rollback.
C18_ExitSetsSentinel == [][ExitSentinelStep(Err("no such exit"))]_vars

\* C18, amended: the same for a goroutine that leaves from its select or from
\* a heartbeat; a goroutine that finds txnEnd nil when it starts leaves
\* without an error, and its deferred function leaves finalErr as it is.
C18_ExitSetsSentinelUnlessEarly == [][ExitSentinelStep(NoError)]_vars

\* The deferred function has stored the sentinel of the closed channel.
C18_Witness ==
    /\ step.op = "LoopExit"
    /\ finalErr = Err("txnHeartbeater already closed")
    /\ Live(tasks) = {}
    /\ ~quiescing

C20_LeavesOnlyForThreeReasons ==
    [][/\ \A t \in TaskIds : Leaves(t) =>
            \/ step'.op \in {"heartbeat", "heartbeatReply"} /\ step'.task = t
            \/ tasks[t].closer \in closed
            \/ tasks[t].made \in closed
            \/ quiescing
       /\ (step'.op \in {"SendLocked", "SendLockedReturn", "SendLockedDone"}) =>
            \A t \in Live(tasks) : tasks'[t] = tasks[t]]_vars

\* C21: every heartbeat request goes to the gatekeeper and none to the wrapped
\* sender; it is the only request of its batch and is addressed at the
\* record's anchor key, which is set; and the batch's Txn is a copy of the
\* record taken in the same step, the record's status being PENDING.
C21_HeartbeatViaGatekeeper ==
    /\ [][(step'.op = "heartbeat" /\ step'.to # NoSender) =>
            /\ step'.to = Gatekeeper
            /\ txn.Status = PENDING
            /\ txn.Key # NoKey
            /\ step'.ba = <<Req("HeartbeatTxn", txn.Key, FALSE, FALSE)>>
            /\ step'.clone = [Status |-> PENDING, Key |-> txn.Key, Writing |-> txn.Writing]
            /\ txn' = txn]_vars
    /\ [][(\E i \in 1..Len(step'.ba) : step'.ba[i].method = "HeartbeatTxn") =>
            step'.op = "heartbeat" /\ step'.to = Gatekeeper]_vars
    /\ [][(step'.to = Gatekeeper) => step'.op = "heartbeat"]_vars

\* A heartbeat for the anchor k2 is with the gatekeeper.
C21_Witness ==
    /\ step.op = "heartbeat"
    /\ step.to = Gatekeeper
    /\ step.ba = <<Req("HeartbeatTxn", "k2", FALSE, FALSE)>>
    /\ step.clone.Status = PENDING
    /\ tasks[step.task].pc = "hbflight"

\* The goroutines inside heartbeat(): their request is with the gatekeeper,
\* which has released the mutex for the round trip.
InHeartbeat == {t \in TaskIds : tasks[t].pc = "hbflight"}

\* C22: at no time is more than one heartbeat attempt of the heartbeater
\* under way, the round trip of its request included.
C22_OneHeartbeatAtATime == Cardinality(InHeartbeat) <= 1

\* C23: a SendLocked call that gets as far as needing a begin calls
\* startHeartbeatLoopLocked exactly when txnEnd is nil and its batch holds no
\* EndTransaction.  The call makes a new channel the marker, and spawns one
\* goroutine unless the stopper is quiescing; without the call the marker and
\* the goroutines stay as they are.  No SendLocked call is fatal.
C23_StartsLoopOnlyWhenUnmarked ==
    [][(SendLockedStep /\ call'.need) =>
        LET ba == call'.ba
            noEndTxn == \A i \in 1..Len(ba) : ba[i].method # "EndTransaction"
        IN
        /\ needBeginTxn /\ WritePositions(ba) # {}
        /\ fatal' = NoFatal
        /\ IF txnEnd = NoChan /\ noEndTxn
           THEN /\ txnEnd' # NoChan
                /\ txnEnd' \notin closed
                /\ \A t \in Live(tasks) : txnEnd' \notin {tasks[t].closer, tasks[t].made}
                /\ IF quiescing THEN tasks' = tasks
                   ELSE \E t \in TaskIds :
                        /\ tasks[t].pc = "idle"
                        /\ tasks' = [tasks EXCEPT ![t] =
                                [pc |-> "start", made |-> txnEnd', closer |-> NoChan,
                                 finalErr |-> NoError]]
           ELSE UNCHANGED <<txnEnd, tasks>>]_vars

\* A one-phase commit is with the wrapped sender, its begin decided, and there
\* is neither a marker nor a goroutine.
C23_Witness ==
    /\ call.st = "inflight"
    /\ call.need
    /\ call.ba = <<Put("k1"), EndTxn(TRUE)>>
    /\ ~needBeginTxn
    /\ txnEnd = NoChan
    /\ Live(tasks) = {}
    /\ ~quiescing

\* C24: a heartbeat attempt that finds the record's status not PENDING hands
\* nothing to a sender and has its goroutine leave, and the process never
\* ends in the fatal state of a finished record with the loop still marked.
C24_FinishedRecordNeverMarked ==
    [][/\ (step'.op = "heartbeat" /\ txn.Status # PENDING) =>
            /\ step'.to = NoSender
            /\ tasks'[step'.task].pc = "exit"
       /\ fatal' # "txn committed or aborted but heartbeat loop hasn't been signaled to stop"]_vars

\* This step is heartbeat() taking a reply that carries a record: a response,
\* or an error other than the two special ones with a record in it.
RecordReplyStep ==
    /\ step'.op = "heartbeatReply"
    /\ step'.reply \in {"ok", "error"}
    /\ step'.snap # Nil

\* C25: after a reply with a record is merged, a PENDING record sends the
\* goroutine back to its select with nothing else done; an ABORTED one has
\* the callback called, the rollback scheduled if the stopper lets it, and
\* the goroutine leave; a COMMITTED one has the goroutine leave with no
\* callback and no rollback.
C25_MergedStatusDecides ==
    [][RecordReplyStep =>
        LET t == step'.task IN
        /\ tasks[t].pc = "hbflight"
        /\ fatal' = NoFatal
        /\ step'.to = NoSender
        /\ txn'.Status \in Statuses
        /\ (txn'.Status = PENDING) =>
                /\ tasks' = [tasks EXCEPT ![t].pc = "select"]
                /\ UNCHANGED <<callbacks, abortTasks, txn>>
        /\ (txn'.Status = ABORTED) =>
                /\ tasks' = [tasks EXCEPT ![t].pc = "exit",
                                          ![t].finalErr = Err("heartbeat failed fatally")]
                /\ callbacks' = callbacks + 1
                /\ abortTasks' = IF quiescing THEN abortTasks ELSE abortTasks + 1
        /\ (txn'.Status = COMMITTED) =>
                /\ tasks' = [tasks EXCEPT ![t].pc = "exit",
                                          ![t].finalErr = Err("heartbeat failed fatally")]
                /\ UNCHANGED <<callbacks, abortTasks>>]_vars

\* An error came back with a COMMITTED record in it: the goroutine is on its
\* way out and no cleanup was triggered.
C25_Witness ==
    /\ step.op = "heartbeatReply"
    /\ step.reply = "error"
    /\ step.snap = COMMITTED
    /\ txn.Status = COMMITTED
    /\ tasks[step.task].pc = "exit"
    /\ callbacks = 0
    /\ abortTasks = 0

\* C26: a SendLocked call that gets as far as needing a begin and finds the
\* record without an anchor makes the key of the batch's first transactional
\* write the anchor, in the record and in the batch's Txn; only such a call
\* gives the record an anchor; and once the record has one, no step changes
\* it, a begin for a write on another key included.  (init installs the
\* record of another transaction.)
C26_AnchorFixedAtFirstWrite ==
    /\ [][(SendLockedStep /\ call'.need) =>
            LET ba == call'.ba IN
            /\ WritePositions(ba) # {}
            /\ txn'.Key = IF txn.Key = NoKey THEN ba[FirstWrite(ba) + 1].key ELSE txn.Key
            /\ txn'.Key # NoKey
            /\ call'.baTxn.Key = txn'.Key]_vars
    /\ [][(txn.Key = NoKey /\ txn'.Key # NoKey) => SendLockedStep /\ call'.need]_vars
    /\ [][(txn.Key # NoKey /\ step'.op # "init") => txn'.Key = txn.Key]_vars

\* After an epoch bump a begin went out for a write on k2; the anchor is
\* still k1, in the record, in the batch's Txn and in the marker.
C26_Witness ==
    /\ call.st = "inflight"
    /\ call.need
    /\ call.ba = <<Get("k1"), Put("k2")>>
    /\ txn.Key = "k1"
    /\ call.baTxn.Key = "k1"
    /\ call.added
    /\ call.fwd[2] = Req("BeginTransaction", "k1", FALSE, FALSE)

\* This step is heartbeat() calling abortTxnAsyncLocked: the reply is not
\* "record not found" and leaves the record ABORTED.
CleanupStep ==
    /\ step'.op = "heartbeatReply"
    /\ step'.reply # "notfound"
    /\ txn'.Status = ABORTED

\* C27: when the cleanup runs while the stopper is quiescing, the callback is
\* called, no rollback task is scheduled, nothing is sent, the process goes
\* on and the goroutine leaves with "heartbeat failed fatally", which its
\* deferred function stores in finalErr; a rollback is sent by a scheduled
\* task only, and a task is scheduled only while the stopper is not quiescing.
C27_FailedSchedulingNotEscalated ==
    /\ [][(CleanupStep /\ quiescing) =>
            LET t == step'.task IN
            /\ callbacks' = callbacks + 1
            /\ abortTasks' = abortTasks
            /\ fatal' = NoFatal
            /\ step'.to = NoSender
            /\ tasks' = [tasks EXCEPT ![t].pc = "exit",
                                      ![t].finalErr = Err("heartbeat failed fatally")]]_vars
    /\ [][(step'.op = "LoopExit" /\ tasks[step'.task].finalErr # NoError) =>
            /\ finalErr' = tasks[step'.task].finalErr
            /\ tasks'[step'.task].pc = "idle"]_vars
    /\ [][(abortTasks' > abortTasks) => ~quiescing]_vars
    /\ [][(\E i \in 1..Len(step'.ba) : step'.ba[i].poison) =>
            step'.op = "abortTask" /\ abortTasks > 0 /\ abortTasks' = abortTasks - 1]_vars

\* The cleanup ran while the stopper was quiescing: the callback was called,
\* no task is waiting, the goroutine is on its way out and the process lives.
C27_Witness ==
    /\ step.op = "heartbeatReply"
    /\ step.reply = "aborted"
    /\ quiescing
    /\ txn.Status = ABORTED
    /\ callbacks = 1
    /\ abortTasks = 0
    /\ tasks[step.task].pc = "exit"
    /\ tasks[step.task].finalErr = Err("heartbeat failed fatally")
    /\ fatal = NoFatal

\* This step is heartbeat() taking an error that is neither of the two
\* special ones and has no record in it.
BareErrorStep ==
    /\ step'.op = "heartbeatReply"
    /\ step'.reply = "error"
    /\ step'.snap = Nil

\* What such an error does when the record is PENDING.
BareErrorIgnored ==
    /\ tasks' = [tasks EXCEPT ![step'.task].pc = "select"]
    /\ tasks'[step'.task].finalErr = NoError
    /\ UNCHANGED <<txn, needBeginTxn, txnEnd, finalErr, closed, callbacks, abortTasks,
                   fatal, call>>
    /\ step'.to = NoSender

\* C28, as claimed: an error without a record, other than the two special
\* ones, leaves the record as it is and sends the goroutine back to its
\* select; finalErr is not touched.
C28_BareErrorIgnored == [][BareErrorStep => BareErrorIgnored]_vars

\* C28, amended: the same if the record is PENDING when the error arrives.
\* If the record was finished during the round trip, the error still leaves
\* it as it is, but the goroutine leaves with "heartbeat failed fatally",
\* after the cleanup if the record is ABORTED.
C28_BareErrorIgnoredWhilePending ==
    [][BareErrorStep =>
        LET t == step'.task IN
        /\ tasks[t].pc = "hbflight"
        /\ UNCHANGED <<txn, needBeginTxn, txnEnd, finalErr, closed, fatal, call>>
        /\ step'.to = NoSender
        /\ IF txn.Status = PENDING THEN BareErrorIgnored
           ELSE /\ tasks' = [tasks EXCEPT ![t].pc = "exit",
                                          ![t].finalErr = Err("heartbeat failed fatally")]
                /\ callbacks' = IF txn.Status = ABORTED THEN callbacks + 1 ELSE callbacks
                /\ abortTasks' = IF txn.Status = ABORTED /\ ~quiescing
                                 THEN abortTasks + 1 ELSE abortTasks]_vars

\* A goroutine is back at its select after such an error: the record is
\* PENDING, the loop marked and finalErr unset.
C28_Witness ==
    /\ step.op = "heartbeatReply"
    /\ step.reply = "error"
    /\ step.snap = Nil
    /\ tasks[step.task].pc = "select"
    /\ txn.Status = PENDING
    /\ txnEnd # NoChan
    /\ finalErr = NoError

\* C29: the process never ends in the fatal state of abortTxnAsyncLocked;
\* the callback is called, and a rollback scheduled, only in a step of
\* heartbeat() that leaves the record ABORTED; a rollback is never scheduled
\* without the callback having been called in the same critical section, so
\* no task is waiting or running whose callback is still to come.
C29_CleanupOnlyWhenAborted ==
    /\ [](fatal # "abortTxnAsyncLocked called for non-aborted txn")
    /\ [][(callbacks' > callbacks \/ abortTasks' > abortTasks) =>
            /\ CleanupStep
            /\ callbacks' = callbacks + 1
            /\ abortTasks' \in {abortTasks, abortTasks + 1}
            /\ step'.clone.Status = ABORTED]_vars
    /\ [][CleanupStep => callbacks' = callbacks + 1]_vars
    /\ [](abortTasks <= callbacks)

\* A response with an ABORTED record came back: the callback was called and
\* the rollback, built from a copy of the ABORTED record, is scheduled.
C29_Witness ==
    /\ step.op = "heartbeatReply"
    /\ step.reply = "ok"
    /\ step.snap = ABORTED
    /\ step.clone.Status = ABORTED
    /\ callbacks = 1
    /\ abortTasks = 1
    /\ fatal = NoFatal

\* C30: with eagerRecord off and the lazy transaction record active, a
\* SendLocked call that gets as far as needing a begin clears needBeginTxn,
\* marks the record and the batch's Txn writing with the anchor set, and adds
\* no marker: the batch goes to the wrapped sender as it is, and what the
\* wrapped sender returns is returned as it is.  The loop is started as with
\* a marker: if txnEnd is nil and the batch has no EndTransaction a new
\* channel becomes the marker and a goroutine is spawned; only a quiescing
\* stopper at that point keeps the batch from being forwarded.
C30_LazyBeginWithoutMarker ==
    /\ [][(SendLockedStep /\ ~eagerRecord /\ lazyTxnRecord /\ call'.need) =>
            LET ba == call'.ba
                starts == /\ txnEnd = NoChan
                          /\ \A i \in 1..Len(ba) : ba[i].method # "EndTransaction"
            IN
            /\ needBeginTxn /\ ~needBeginTxn'
            /\ txn'.Writing
            /\ txn'.Key # NoKey
            /\ call'.baTxn = [Key |-> txn'.Key, Writing |-> TRUE]
            /\ ~call'.added
            /\ IF starts /\ quiescing THEN Rejects(finalErr') ELSE Forwards(ba)
            /\ (starts /\ ~quiescing) =>
                    /\ txnEnd' # NoChan
                    /\ \E t \in TaskIds : tasks[t].pc = "idle" /\ tasks'[t].pc = "start"
            /\ ~starts => UNCHANGED <<txnEnd, tasks>>]_vars
    /\ []((call.st = "returned" /\ call.need /\ call.fwd # NoBatch
                /\ ~eagerRecord /\ lazyTxnRecord) =>
            /\ call.fwd = call.ba
            /\ call.br = call.wbr
            /\ call.pErr = call.wpErr)

\* A read and a write came back with an error on the write: no marker was
\* added, the index is the one the wrapped sender gave, the record is writing
\* with the write's key as its anchor, and a goroutine was spawned.
C30_Witness ==
    /\ call.st = "returned"
    /\ call.need
    /\ ~eagerRecord /\ lazyTxnRecord
    /\ call.ba = <<Get("k1"), Put("k2")>>
    /\ call.fwd = call.ba
    /\ call.wpErr.index = 1
    /\ call.pErr.index = 1
    /\ ~needBeginTxn
    /\ txn.Writing /\ txn.Key = "k2"
    /\ txnEnd # NoChan
    /\ \E t \in TaskIds : tasks[t].pc = "start" /\ tasks[t].made = txnEnd

\* C31: a heartbeat whose reply arrives with the record COMMITTED leaves it
\* COMMITTED, whatever the reply, and neither calls the callback nor
\* schedules a rollback.
C31_CommitNotOverridden ==
    [][(step'.op = "heartbeatReply" /\ txn.Status = COMMITTED) =>
        /\ txn'.Status = COMMITTED
        /\ UNCHANGED <<callbacks, abortTasks>>]_vars

\* C32: the deferred function of a goroutine sets txnEnd to nil only if
\* txnEnd is the channel that goroutine selected on, and leaves another
\* loop's channel in place; so the channel of every goroutine in its loop is
\* either closed already or still the one closeLocked would close.
C32_ExitClearsOwnMarkerOnly ==
    /\ [][(step'.op = "LoopExit" /\ txnEnd # tasks[step'.task].closer) =>
            txnEnd' = txnEnd]_vars
    /\ [](\A t \in InLoop : tasks[t].closer \in closed \/ tasks[t].closer = txnEnd)

C34_SendLockedNeverDoubleStarts ==
    /\ [][(step'.op = "SendLocked") =>
            /\ fatal' = NoFatal
            /\ (txnEnd' # txnEnd \/ tasks' # tasks) => txnEnd = NoChan]_vars
    /\ [](fatal # "attempting to start a second heartbeat loop")

\* A begin of a new epoch is with the wrapped sender while the goroutine of
\* the loop started in the first epoch is selecting: no second start.
C34_Witness ==
    /\ step.op = "SendLocked"
    /\ call.st = "inflight"
    /\ call.need
    /\ txnEnd # NoChan
    /\ Cardinality(Live(tasks)) = 1
    /\ \E t \in TaskIds : tasks[t].pc = "select" /\ tasks[t].closer = txnEnd
    /\ fatal = NoFatal

\* C35: in a heartbeater that has not been closed, a batch with a
\* transactional write and no EndTransaction is with the wrapped sender,
\* finalErr being unset, only while txnEnd is set.
C35_WriteInFlightHasLoop ==
    (/\ call.st = "inflight"
     /\ WritePositions(call.ba) # {}
     /\ \A i \in 1..Len(call.ba) : call.ba[i].method # "EndTransaction"
     /\ finalErr = NoError) =>
        txnEnd # NoChan

\* This step is a SendLocked call that returns before it has looked at
\* needBeginTxn: with finalErr, or with the error of a non-terminal
\* EndTransaction.
EarlyRejectStep ==
    /\ SendLockedStep
    /\ call'.st = "returned"
    /\ ~call'.need
    /\ \/ finalErr # NoError /\ call'.pErr = finalErr
       \/ call'.pErr = Err("EndTransaction sent as non-terminal call")

\* C36: a SendLocked call that returns finalErr or the error of a
\* non-terminal EndTransaction hands nothing to a sender and changes nothing:
\* needBeginTxn, txnEnd, finalErr, the record, the batch's Txn and the
\* goroutines are as before; and a call that returns without forwarding and
\* is not one of these is one whose loop could not be scheduled.
C36_EarlyRejectChangesNothing ==
    /\ [][EarlyRejectStep =>
            /\ UNCHANGED <<needBeginTxn, txnEnd, finalErr, txn, tasks, closed, fatal,
                           callbacks, abortTasks, quiescing, eagerRecord, lazyTxnRecord>>
            /\ call'.baTxn = [Key |-> txn.Key, Writing |-> txn.Writing]
            /\ call'.fwd = NoBatch
            /\ call'.br = NoResponse
            /\ step'.to = NoSender]_vars
    /\ [][(SendLockedStep /\ call'.st = "returned" /\ ~EarlyRejectStep) =>
            call'.need /\ quiescing /\ finalErr = NoError /\ call'.pErr = finalErr']_vars

\* A batch with an EndTransaction before a write has been returned its
\* error: no anchor, no loop, needBeginTxn still set, the batch's Txn not
\* writing.
C36_Witness ==
    /\ call.st = "returned"
    /\ call.ba = <<EndTxn(TRUE), Put("k1")>>
    /\ call.pErr = Err("EndTransaction sent as non-terminal call")
    /\ ~call.baTxn.Writing
    /\ finalErr = NoError
    /\ needBeginTxn
    /\ txn.Key = NoKey /\ ~txn.Writing
    /\ txnEnd = NoChan
    /\ Live(tasks) = {}

====
